---- MODULE Spec2Model ----
(***************************************************************************)
(* The crossword constraint-satisfaction solver of                         *)
(* ai50/projects/2020/x/crossword/generate.py (class CrosswordCreator).    *)
(*                                                                         *)
(* A word is a sequence of letters; Python's 0-based word[i] is            *)
(* word[i + 1] here and raises IndexError when i >= len(word).             *)
(* A Variable is the record [i, j, direction, length] (a value type).      *)
(* Python sets have no defined iteration order: wherever the code iterates *)
(* a set, the model takes every order.  An assignment (a dict, iterated in *)
(* insertion order) is a sequence of [var, val] entries.                   *)
(***************************************************************************)
EXTENDS Naturals, Sequences, FiniteSets

VARIABLES crossword,   \* self.crossword.variables: the set of Variable records
          words,       \* self.crossword.words: the vocabulary
          varOrder,    \* the iteration order of the set self.crossword.variables
          domains,     \* self.domains
          pc,          \* position of the running solve() call
          arcs,        \* ac3's work list
          ac3ret,      \* what ac3 returned ("pending" before it returns)
          emptied,     \* some revise call inside ac3 left domains[x] empty
          assignment,  \* the dict shared by all backtrack frames
          frames,      \* the stack of backtrack calls inside their for loop
          result,      \* what solve() returned ("pending" before it returns)
          nodeRuns,    \* how many times enforce_node_consistency has been called
          call         \* the last method call: its arguments and what it returned

vars == <<crossword, words, varOrder, domains, pc, arcs, ac3ret, emptied,
          assignment, frames, result, nodeRuns, call>>

\* ------------------------------------------------------------------ bounds

MaxVocab == 5       \* words in the vocabulary
MaxNodeRuns == 2    \* direct calls of enforce_node_consistency on one object
MaxApiVocab == 3    \* words in the vocabulary when the methods are called directly
MaxOrderVocab == 3  \* words in the vocabulary when order_domain_values is called
MaxFairVocab == 2   \* words in the vocabulary of the runs checked for termination
MaxGivenArcs == 1   \* arcs in a list handed to ac3

\* ------------------------------------------------------- the puzzle model

\* None where a Variable is expected, and None where an overlap is expected
\* (both are falsy in Python, every Variable and every index pair is truthy)
NoVariable == [none |-> TRUE]
NoOverlap == <<>>

Var(i, j, direction, length) ==
    [i |-> i, j |-> j, direction |-> direction, length |-> length]

\* ___      _#      _#_     __      __
\* _##      _#      ___             __
\* _##      __
PuzzleCross  == {Var(0, 0, "across", 3), Var(0, 0, "down", 3)}
PuzzleEll    == {Var(0, 0, "down", 3), Var(2, 0, "across", 2)}
PuzzleH      == {Var(0, 0, "down", 2), Var(0, 2, "down", 2), Var(1, 0, "across", 3)}
PuzzleSingle == {Var(0, 0, "across", 2)}
PuzzleSquare == {Var(0, 0, "across", 2), Var(1, 0, "across", 2),
                 Var(0, 0, "down", 2), Var(0, 1, "down", 2)}

Puzzles == {PuzzleCross, PuzzleEll, PuzzleH, PuzzleSingle, PuzzleSquare}

\* the puzzles on which the methods are called directly
ApiPuzzles == {PuzzleCross, PuzzleEll, PuzzleH, PuzzleSingle}

WordPool == { <<"a", "a", "b">>, <<"a", "b", "a">>, <<"b", "a", "b">>,
              <<"a", "a">>, <<"a", "b">>, <<"b", "a">>, <<"a", "c">>, <<"c", "a">> }

\* Variable.cells: the k-th cell of the slot, k in 0..length-1
Cell(v, k) ==
    IF v.direction = "down" THEN <<v.i + k, v.j>> ELSE <<v.i, v.j + k>>

\* Crossword.overlaps[x, y]: None, or <<i, j>>: cell i of x is cell j of y
\* (an across and a down slot share at most one cell)
Overlaps(x, y) ==
    LET shared == {p \in (0..(x.length - 1)) \X (0..(y.length - 1)) :
                       Cell(x, p[1]) = Cell(y, p[2])}
    IN  IF shared = {} THEN NoOverlap ELSE CHOOSE p \in shared : TRUE

\* Crossword.neighbors(var)
Neighbors(var) ==
    {v \in crossword : v # var /\ Overlaps(v, var) # NoOverlap}

\* bool(v) of a Variable or None: Variable defines neither __bool__ nor __len__
Truthy(v) == v # NoVariable

\* ----------------------------------------------------------------- helpers

\* every order in which the members of the set S can be iterated
RECURSIVE Perms(_)
Perms(S) ==
    IF S = {} THEN {<<>>}
    ELSE UNION {{Append(s, x) : s \in Perms(S \ {x})} : x \in S}

IndexError == "IndexError"
KeyError == "KeyError"

\* word[i] of Python
Char(word, i) == IF i < Len(word) THEN word[i + 1] ELSE IndexError

\* ------------------------------------------- enforce_node_consistency

\* the test of line 105, were it to let shorter words through
MismatchLongerOnly(x, var) == Len(x) > var.length

\* line 105: the word does not fit the slot
Mismatch(x, var) == Len(x) # var.length

\* The two nested loops over (var, x), as the list of pairs they visit
NodePairs(vorder, worder) ==
    [k \in 1..(Len(vorder) * Len(worder)) |->
        <<vorder[((k - 1) \div Len(worder)) + 1], worder[((k - 1) % Len(worder)) + 1]>>]

\* Runs the loops from pair k on; set.remove raises KeyError on a missing element
RECURSIVE NodeRun(_, _, _)
NodeRun(doms, pairs, k) ==
    IF k > Len(pairs) THEN [domains |-> doms, ret |-> "None"]
    ELSE LET var == pairs[k][1]
             x   == pairs[k][2]
         IN  IF Mismatch(x, var)
             THEN IF x \in doms[var]
                  THEN NodeRun([doms EXCEPT ![var] = @ \ {x}], pairs, k + 1)
                  ELSE [domains |-> doms, ret |-> KeyError]
             ELSE NodeRun(doms, pairs, k + 1)

EnforceNodeConsistencyRun(doms, vorder, worder) ==
    NodeRun(doms, NodePairs(vorder, worder), 1)

\* What a call can end in: one outcome for each iteration order of the set
\* self.crossword.words
EnforceNodeConsistencyRuns(doms, vorder, ws) ==
    {EnforceNodeConsistencyRun(doms, vorder, worder) : worder \in Perms(ws)}

\* ----------------------------------------------------------------- revise

\* the test of line 125 with the two overlap indices exchanged
SupportsSwapped(val1, val2, i, j) ==
    val1 # val2 /\ Char(val1, j) = Char(val2, i)

\* the test of line 125 without `val1 != val2`
SupportsSameWord(val1, val2, i, j) ==
    Char(val1, i) = Char(val2, j)

\* The test of line 125 on one pair of candidates
Supports(val1, val2, i, j) ==
    val1 # val2 /\ Char(val1, i) = Char(val2, j)

\* The test of line 125 indexes past the end of a candidate
BadIndex(val1, val2, i, j) ==
    val1 # val2 /\ (Char(val1, i) = IndexError \/ Char(val2, j) = IndexError)

\* Some iteration order of domains[y] reaches a pair that raises IndexError
ReviseMayRaise(doms, x, y) ==
    /\ Overlaps(x, y) # NoOverlap
    /\ \E val1 \in doms[x], val2 \in doms[y] :
           BadIndex(val1, val2, Overlaps(x, y)[1], Overlaps(x, y)[2])

\* revise with the two domains confused: the candidates of y that x supports
ReviseFromY(doms, x, y) ==
    IF Overlaps(x, y) # NoOverlap
    THEN LET i == Overlaps(x, y)[1]
             j == Overlaps(x, y)[2]
         IN  {val2 \in doms[y] : \E val1 \in doms[x] : Supports(val1, val2, i, j)}
    ELSE doms[x]

\* revise with the for/else of lines 122-130 inverted: the candidates that
\* have support are the ones removed
ReviseKeepsUnsupported(doms, x, y) ==
    IF Overlaps(x, y) # NoOverlap
    THEN LET i == Overlaps(x, y)[1]
             j == Overlaps(x, y)[2]
         IN  {val1 \in doms[x] : ~\E val2 \in doms[y] : Supports(val1, val2, i, j)}
    ELSE doms[x]

\* domains[x] after revise(x, y)
Revise(doms, x, y) ==
    IF Overlaps(x, y) # NoOverlap
    THEN LET i == Overlaps(x, y)[1]
             j == Overlaps(x, y)[2]
         IN  {val1 \in doms[x] : \E val2 \in doms[y] : Supports(val1, val2, i, j)}
    ELSE doms[x]

\* -------------------------------------------------------------------- ac3

\* itertools.product(variables, repeat=2) without the pairs (v, v)
AllArcs(vorder) ==
    LET n == Len(vorder)
        prod == [k \in 1..(n * n) |->
                    <<vorder[((k - 1) \div n) + 1], vorder[((k - 1) % n) + 1]>>]
    IN  SelectSeq(prod, LAMBDA arc_pairs : arc_pairs[1] # arc_pairs[2])

\* lines 157-159 left out: nothing is appended after a revision
LinkedArcsNone(x, y) == {<<>>}

\* line 157 without `- {y}`: the arc from y is appended as well
LinkedArcsAll(x, y) ==
    {[k \in 1..Len(order) |-> <<order[k], x>>] : order \in Perms(Neighbors(x))}

\* line 159 with the pair the wrong way round: (x, linked_arc) is appended
LinkedArcsReversed(x, y) ==
    {[k \in 1..Len(order) |-> <<x, order[k]>>] : order \in Perms(Neighbors(x) \ {y})}

\* The arcs (linked_arc, x) appended after a revision of x, in every order of
\* the set neighbors(x) - {y}
LinkedArcs(x, y) ==
    {[k \in 1..Len(order) |-> <<order[k], x>>] : order \in Perms(Neighbors(x) \ {y})}

\* ------------------------------------------------------- the assignment

\* `v in assignment` and assignment[v]
Assigned(a) == {a[k].var : k \in 1..Len(a)}
ValOf(a, v) == a[CHOOSE k \in 1..Len(a) : a[k].var = v].val

\* -------------------------------------------------- assignment_complete

\* assignment_complete without the count of line 168
AssignmentCompleteNoCount(a) ==
    \A k \in 1..Len(a) : a[k].val # <<>>

AssignmentComplete(a) ==
    IF Len(a) # Cardinality(crossword) THEN FALSE
    ELSE \A k \in 1..Len(a) : a[k].val # <<>>

\* ------------------------------------------------------------- consistent

\* line 200 left out: distinct_values stays empty
DistinctValuesNeverAdded(a, k) == {}

\* The values lines 197-200 have put in distinct_values before entry k
DistinctValues(a, k) ==
    {a[m].val : m \in {m \in 1..(k - 1) : a[m].val # <<>>}}

\* What the inner loop over assigned_neighbours can end in for entry k: the
\* neighbours are visited in any order, so a clash ("False") and a neighbour
\* whose word is too short for its overlap index (IndexError) compete
NeighbourOutcomes(a, k) ==
    LET sv == a[k].var
        assigned_neighbours == {n \in Neighbors(sv) : n \in Assigned(a)}
        theirs(n) == Char(ValOf(a, n), Overlaps(sv, n)[2])
        mine(n) == Char(a[k].val, Overlaps(sv, n)[1])
        raising == {n \in assigned_neighbours : theirs(n) = IndexError}
        clashing == {n \in assigned_neighbours \ raising : mine(n) # theirs(n)}
    IN  (IF raising # {} THEN {IndexError} ELSE {})
        \cup (IF clashing # {} THEN {"False"} ELSE {})

\* The possible results of consistent(a) from entry k on
RECURSIVE ConsistentFrom(_, _)
ConsistentFrom(a, k) ==
    IF k > Len(a) THEN {"True"}
    ELSE IF a[k].val = <<>> THEN ConsistentFrom(a, k + 1)
    ELSE IF Len(a[k].val) # a[k].var.length THEN {"False"}
    ELSE IF a[k].val \in DistinctValues(a, k) THEN {"False"}
    ELSE IF NeighbourOutcomes(a, k) # {} THEN NeighbourOutcomes(a, k)
    ELSE ConsistentFrom(a, k + 1)

Consistent(a) == ConsistentFrom(a, 1)

\* ------------------------------------------- select_unassigned_variable

\* the loop body without the degree tie-break of lines 271-274
SelectStepNoDegree(doms, choice, v, a) ==
    IF v \in Assigned(a) THEN choice
    ELSE IF ~Truthy(choice) THEN v
    ELSE IF Cardinality(doms[v]) < Cardinality(doms[choice]) THEN v
    ELSE choice

\* the loop body without `if v in assignment: continue` (lines 259-260)
SelectStepAnyVariable(doms, choice, v, a) ==
    IF ~Truthy(choice) THEN v
    ELSE IF Cardinality(doms[v]) < Cardinality(doms[choice]) THEN v
    ELSE IF /\ Cardinality(doms[v]) = Cardinality(doms[choice])
            /\ Cardinality(Neighbors(v)) > Cardinality(Neighbors(choice)) THEN v
    ELSE choice

\* One pass of the loop body for v, given the choice so far
SelectStep(doms, choice, v, a) ==
    IF v \in Assigned(a) THEN choice
    ELSE IF ~Truthy(choice) THEN v
    ELSE IF Cardinality(doms[v]) < Cardinality(doms[choice]) THEN v
    ELSE IF /\ Cardinality(doms[v]) = Cardinality(doms[choice])
            /\ Cardinality(Neighbors(v)) > Cardinality(Neighbors(choice)) THEN v
    ELSE choice

RECURSIVE SelectFrom(_, _, _, _, _)
SelectFrom(doms, vorder, a, k, choice) ==
    IF k > Len(vorder) THEN choice
    ELSE SelectFrom(doms, vorder, a, k + 1, SelectStep(doms, choice, vorder[k], a))

SelectUnassignedVariable(doms, vorder, a) ==
    SelectFrom(doms, vorder, a, 1, NoVariable)

\* ----------------------------------------------------- order_domain_values

\* ord(letter)
LetterCode(l) == CASE l = "a" -> 97 [] l = "b" -> 98 [] l = "c" -> 99

\* str.__lt__: the first differing letter decides, a proper prefix is smaller
RECURSIVE WordLess(_, _)
WordLess(w1, w2) ==
    IF w2 = <<>> THEN FALSE
    ELSE IF w1 = <<>> THEN TRUE
    ELSE IF Head(w1) # Head(w2) THEN LetterCode(Head(w1)) < LetterCode(Head(w2))
    ELSE WordLess(Tail(w1), Tail(w2))

\* tuple.__lt__ on the (conflicts, val1) pairs of line 238
TupleLess(t1, t2) ==
    \/ t1[1] < t2[1]
    \/ t1[1] = t2[1] /\ WordLess(t1[2], t2[2])

\* line 235 with == for !=: the candidates of the neighbour that agree
ClashesAgreeing(doms, var, val1, neighbour) ==
    LET i == Overlaps(var, neighbour)[1]
        j == Overlaps(var, neighbour)[2]
    IN  Cardinality({val2 \in doms[neighbour] : Char(val1, i) = Char(val2, j)})

\* lines 231-236: what one neighbour adds to `conflicts` for val1
Clashes(doms, var, val1, neighbour) ==
    LET i == Overlaps(var, neighbour)[1]
        j == Overlaps(var, neighbour)[2]
    IN  Cardinality({val2 \in doms[neighbour] : Char(val1, i) # Char(val2, j)})

\* lines 228-236: `conflicts` of val1 after the loop over the neighbours ns
RECURSIVE Conflicts(_, _, _, _)
Conflicts(doms, var, val1, ns) ==
    IF ns = {} THEN 0
    ELSE LET neighbour == CHOOSE n \in ns : TRUE
         IN  Clashes(doms, var, val1, neighbour)
                 + Conflicts(doms, var, val1, ns \ {neighbour})

\* line 222: the neighbours of var that are not keys of the assignment
UnassignedNeighbours(var, keys) == {n \in Neighbors(var) : n \notin keys}

\* line 235 indexes past the end of a candidate
OrderMayRaise(doms, var, keys) ==
    \E n \in UnassignedNeighbours(var, keys) :
        \/ \E val1 \in doms[var] : Char(val1, Overlaps(var, n)[1]) = IndexError
        \/ \E val2 \in doms[n] : Char(val2, Overlaps(var, n)[2]) = IndexError

\* lines 226-238: the list `values`, for the order in which domains[var] is iterated
ValuesList(doms, var, keys, encounter) ==
    [k \in 1..Len(encounter) |->
        <<Conflicts(doms, var, encounter[k], UnassignedNeighbours(var, keys)),
          encounter[k]>>]

\* list.sort(): the list `sorted` with t put before its first greater element
RECURSIVE Insert(_, _)
Insert(sorted, t) ==
    IF sorted = <<>> THEN <<t>>
    ELSE IF TupleLess(t, Head(sorted)) THEN <<t>> \o sorted
    ELSE <<Head(sorted)>> \o Insert(Tail(sorted), t)

RECURSIVE Sort(_, _)
Sort(values, k) ==
    IF k = 0 THEN <<>> ELSE Insert(Sort(values, k - 1), values[k])

\* lines 240-245
OrderDomainValues(doms, var, keys, encounter) ==
    LET values == ValuesList(doms, var, keys, encounter)
        ordered == Sort(values, Len(values))
    IN  [k \in 1..Len(ordered) |-> ordered[k][2]]

\* ------------------------------------------------------------ __init__

Fresh(vs, ws) == [v \in vs |-> ws]

NoCall == [op |-> "none"]

Init ==
    /\ crossword \in Puzzles
    /\ words \in {ws \in SUBSET WordPool : Cardinality(ws) <= MaxVocab}
    /\ varOrder \in Perms(crossword)
    /\ domains = Fresh(crossword, words)
    /\ pc = "solve"
    /\ arcs = <<>>
    /\ ac3ret = "pending"
    /\ emptied = FALSE
    /\ assignment = <<>>
    /\ frames = <<>>
    /\ result = "pending"
    /\ nodeRuns = 0
    /\ call = NoCall

\* ------------------------------------------------------------------ solve

\* line 93: self.enforce_node_consistency(); a KeyError leaves solve()
EnforceNodeConsistency ==
    /\ pc = "solve"
    /\ \E run \in EnforceNodeConsistencyRuns(domains, varOrder, words) :
          /\ domains' = run.domains
          /\ call' = [op |-> "enforce_node_consistency", pre |-> domains,
                      ret |-> run.ret]
          /\ pc' = IF run.ret = KeyError THEN "raised" ELSE "ac3"
    /\ nodeRuns' = nodeRuns + 1
    /\ UNCHANGED <<crossword, words, varOrder, arcs, ac3ret, emptied,
                   assignment, frames, result>>

\* line 94: self.ac3() with arcs = None; lines 143-148
Ac3Begin ==
    /\ pc = "ac3"
    /\ arcs' = AllArcs(varOrder)
    /\ pc' = "ac3_loop"
    /\ UNCHANGED <<crossword, words, varOrder, domains, ac3ret, emptied,
                   assignment, frames, result, nodeRuns, call>>

\* revision_made set to True at line 117 instead of line 130
RevisionMadeAlways(dom, revised) == TRUE

\* lines 117, 128-132: revision_made, True once a candidate has been removed
RevisionMade(dom, revised) == \E val1 \in dom : val1 \notin revised

\* lines 150-159: one turn of the while loop
Ac3Step ==
    /\ pc = "ac3_loop"
    /\ arcs # <<>>
    /\ LET x == arcs[Len(arcs)][1]
           y == arcs[Len(arcs)][2]
           rest == SubSeq(arcs, 1, Len(arcs) - 1)
           revised == Revise(domains, x, y)
           revision_made == RevisionMade(domains[x], revised)
       IN  IF ReviseMayRaise(domains, x, y)
           THEN \* the IndexError leaves ac3 and solve(); the candidates found
                \* unsupported before it are already removed
                /\ pc' = "raised"
                /\ arcs' = rest
                /\ \E kept \in SUBSET domains[x] :
                      /\ revised \subseteq kept
                      /\ domains' = [domains EXCEPT ![x] = kept]
                /\ UNCHANGED <<ac3ret, emptied, call>>
           ELSE /\ domains' = [domains EXCEPT ![x] = revised]
                /\ call' = [op |-> "revise", x |-> x, y |-> y, pre |-> domains,
                            ret |-> revision_made, queue |-> rest]
                /\ emptied' = (emptied \/ (revision_made /\ revised = {}))
                /\ IF ~revision_made
                   THEN /\ arcs' = rest
                        /\ UNCHANGED <<pc, ac3ret>>
                   ELSE IF ~Truthy(x) \/ ~Truthy(y)
                   THEN /\ arcs' = rest
                        /\ ac3ret' = "False"
                        /\ pc' = "backtrack"
                   ELSE /\ arcs' \in {rest \o linked : linked \in LinkedArcs(x, y)}
                        /\ UNCHANGED <<pc, ac3ret>>
    /\ UNCHANGED <<crossword, words, varOrder, assignment, frames, result, nodeRuns>>

\* line 161: the work list is empty
Ac3Return ==
    /\ pc = "ac3_loop"
    /\ arcs = <<>>
    /\ ac3ret' = "True"
    /\ pc' = "backtrack"
    /\ UNCHANGED <<crossword, words, varOrder, domains, arcs, emptied,
                   assignment, frames, result, nodeRuns, call>>

\* -------------------------------------------------------------- backtrack

\* line 294, assignment[unassigned_var] = val: a new key goes last, a key
\* already there keeps its place
Stored(a, var, val) ==
    IF var \in Assigned(a)
    THEN [k \in 1..Len(a) |-> IF a[k].var = var THEN [var |-> var, val |-> val]
                                               ELSE a[k]]
    ELSE Append(a, [var |-> var, val |-> val])

\* line 301 left out: the entry stays
PoppedNever(a, var) == a

\* line 301, assignment.pop(unassigned_var)
Popped(a, var) == SelectSeq(a, LAMBDA e : e.var # var)

\* lines 287-290: a call backtrack(assignment) starts (line 95 for the first);
\* `entry` is the assignment it was called with
BacktrackCall ==
    /\ pc = "backtrack"
    /\ IF AssignmentComplete(assignment)
       THEN /\ result' = "assignment"
            /\ pc' = "done"
            /\ frames' = <<>>
       ELSE LET unassigned_var ==
                    SelectUnassignedVariable(domains, varOrder, assignment)
            IN  IF unassigned_var = NoVariable
                THEN /\ pc' = "raised"
                     /\ UNCHANGED <<frames, result>>
                ELSE /\ frames' = Append(frames, [var |-> unassigned_var,
                                                  todo |-> domains[unassigned_var],
                                                  entry |-> assignment])
                     /\ pc' = "backtrack_loop"
                     /\ UNCHANGED result
    /\ UNCHANGED <<crossword, words, varOrder, domains, arcs, ac3ret, emptied,
                   assignment, nodeRuns, call>>

\* the branch loop with forward checking that is never undone: the value tried
\* is also taken out of the variable's domain
BacktrackTryPruning ==
    /\ pc = "backtrack_loop"
    /\ frames[Len(frames)].todo # {}
    /\ \E val \in frames[Len(frames)].todo :
          LET top == frames[Len(frames)]
              tried == Stored(assignment, top.var, val)
          IN  /\ frames' = [frames EXCEPT ![Len(frames)].todo = @ \ {val}]
              /\ domains' = [domains EXCEPT ![top.var] = @ \ {val}]
              /\ \E ok \in Consistent(tried) :
                    /\ assignment' = IF ok = "False" THEN Popped(tried, top.var)
                                                   ELSE tried
                    /\ pc' = IF ok = "True" THEN "backtrack"
                             ELSE IF ok = "False" THEN "backtrack_loop"
                             ELSE "raised"
    /\ UNCHANGED <<crossword, words, varOrder, arcs, ac3ret, emptied,
                   result, nodeRuns, call>>

\* lines 293-301: the innermost call tries its next value
BacktrackTry ==
    /\ pc = "backtrack_loop"
    /\ frames[Len(frames)].todo # {}
    /\ \E val \in frames[Len(frames)].todo :
          LET top == frames[Len(frames)]
              tried == Stored(assignment, top.var, val)
          IN  /\ frames' = [frames EXCEPT ![Len(frames)].todo = @ \ {val}]
              /\ \E ok \in Consistent(tried) :
                    /\ assignment' = IF ok = "False" THEN Popped(tried, top.var)
                                                   ELSE tried
                    /\ pc' = IF ok = "True" THEN "backtrack"
                             ELSE IF ok = "False" THEN "backtrack_loop"
                             ELSE "raised"
    /\ UNCHANGED <<crossword, words, varOrder, domains, arcs, ac3ret, emptied,
                   result, nodeRuns, call>>

\* line 302: the innermost call has no value left and returns None; its caller
\* pops its own tentative value (line 301), solve() returns None at the root
BacktrackFail ==
    /\ pc = "backtrack_loop"
    /\ frames[Len(frames)].todo = {}
    /\ frames' = SubSeq(frames, 1, Len(frames) - 1)
    /\ IF Len(frames) = 1
       THEN /\ result' = "None"
            /\ pc' = "done"
            /\ UNCHANGED assignment
       ELSE /\ assignment' = Popped(assignment, frames[Len(frames) - 1].var)
            /\ UNCHANGED <<pc, result>>
    /\ UNCHANGED <<crossword, words, varOrder, domains, arcs, ac3ret, emptied,
                   nodeRuns, call>>

Next ==
    \/ EnforceNodeConsistency
    \/ Ac3Begin
    \/ Ac3Step
    \/ Ac3Return
    \/ BacktrackCall
    \/ BacktrackTry
    \/ BacktrackFail

Spec == Init /\ [][Next]_vars

\* solve() runs in one thread that always takes its next step
InitFair ==
    /\ Init
    /\ crossword \in ApiPuzzles
    /\ Cardinality(words) <= MaxFairVocab

SpecFair == InitFair /\ [][Next]_vars /\ WF_vars(Next)

\* enforce_node_consistency() and then ac3(), as lines 93-94 run them
NextAc3 ==
    \/ EnforceNodeConsistency
    \/ Ac3Begin
    \/ Ac3Step
    \/ Ac3Return

InitAc3 ==
    /\ Init
    /\ Cardinality(words) <= MaxFairVocab

SpecAc3Fair == InitAc3 /\ [][NextAc3]_vars /\ WF_vars(NextAc3)

\* the same two calls on every puzzle and vocabulary of Init
SpecAc3 == Init /\ [][NextAc3]_vars

\* ------------------------------------------- the methods, called directly

\* Every dict {variable: word} over the vocabulary, in every insertion order
RECURSIVE Assignments(_, _)
Assignments(vs, ws) ==
    {<<>>} \cup UNION { {Append(a, [var |-> v, val |-> w]) : w \in ws, a \in Assignments(vs \ {v}, ws)} : v \in vs }

\* creator.enforce_node_consistency()
ApiEnforceNodeConsistency ==
    /\ pc = "solve"
    /\ call.op # "consistent"
    /\ nodeRuns < MaxNodeRuns
    /\ \E run \in EnforceNodeConsistencyRuns(domains, varOrder, words) :
          /\ domains' = run.domains
          /\ call' = [op |-> "enforce_node_consistency", pre |-> domains,
                      ret |-> run.ret]
    /\ nodeRuns' = nodeRuns + 1
    /\ UNCHANGED <<crossword, words, varOrder, pc, arcs, ac3ret, emptied,
                   assignment, frames, result>>

\* creator.consistent(a); it changes nothing, so what can follow it is what can
\* follow the state it was called in: the calls after it start from there
ApiConsistent ==
    /\ pc = "solve"
    /\ call.op # "consistent"
    /\ \E a \in Assignments(crossword, words) :
          \E ok \in Consistent(a) :
              call' = [op |-> "consistent", a |-> a, ret |-> ok]
    /\ UNCHANGED <<crossword, words, varOrder, domains, pc, arcs, ac3ret, emptied,
                   assignment, frames, result, nodeRuns>>

NextApi ==
    \/ ApiEnforceNodeConsistency
    \/ ApiConsistent

InitApi ==
    /\ Init
    /\ crossword \in ApiPuzzles
    /\ Cardinality(words) <= MaxApiVocab

SpecApi == InitApi /\ [][NextApi]_vars

\* creator.order_domain_values(var, assignment) on the domains solve() has
\* prepared, before or after ac3. The method reads the assignment only through
\* `n not in assignment` (line 222), so the argument is drawn as its set of
\* keys; `encounter` is the order in which the set domains[var] is iterated.
\* The caller stops after the call.
ApiOrderDomainValues ==
    /\ pc \in {"ac3", "backtrack"}
    /\ \E var \in crossword :
          \E keys \in SUBSET (crossword \ {var}) :
              \E encounter \in Perms(domains[var]) :
                  call' = [op |-> "order_domain_values", var |-> var,
                           keys |-> keys, encounter |-> encounter,
                           ret |-> IF OrderMayRaise(domains, var, keys)
                                   THEN IndexError
                                   ELSE OrderDomainValues(domains, var, keys,
                                                          encounter)]
    /\ pc' = "ordered"
    /\ UNCHANGED <<crossword, words, varOrder, domains, arcs, ac3ret, emptied,
                   assignment, frames, result, nodeRuns>>

NextOrder ==
    \/ EnforceNodeConsistency
    \/ Ac3Begin
    \/ Ac3Step
    \/ Ac3Return
    \/ ApiOrderDomainValues

InitOrder ==
    /\ Init
    /\ crossword \in ApiPuzzles
    /\ Cardinality(words) <= MaxOrderVocab

SpecOrder == InitOrder /\ [][NextOrder]_vars

\* The argument of ac3: nothing (the default None), or a list of arcs
NoArcs == [given |-> FALSE]
ArcList(list) == [given |-> TRUE, list |-> list]

\* line 143, `not arcs`: true of None and of the empty list alike
NotArcs(arg) == ~arg.given \/ arg.list = <<>>

\* the lists of arcs of the puzzle with at most MaxGivenArcs arcs
GivenArcLists ==
    UNION {[1..n -> {AllArcs(varOrder)[k] : k \in 1..Len(AllArcs(varOrder))}] :
              n \in 0..MaxGivenArcs}

\* creator.ac3(arcs) after enforce_node_consistency(): lines 143-148
ApiAc3 ==
    /\ pc = "ac3"
    /\ \E arg \in {NoArcs} \cup {ArcList(list) : list \in GivenArcLists} :
          /\ arcs' = IF NotArcs(arg) THEN AllArcs(varOrder) ELSE arg.list
          /\ call' = [op |-> "ac3", arg |-> arg, pre |-> domains]
    /\ pc' = "ac3_loop"
    /\ UNCHANGED <<crossword, words, varOrder, domains, ac3ret, emptied,
                   assignment, frames, result, nodeRuns>>

NextAc3Arg ==
    \/ EnforceNodeConsistency
    \/ ApiAc3
    \/ Ac3Step
    \/ Ac3Return

SpecAc3Arg == InitAc3 /\ [][NextAc3Arg]_vars

\* ----------------------------------------------------------------- claims

\* The dict a as a function from its keys to their words
AsMap(a) == [v \in Assigned(a) |-> ValOf(a, v)]

\* f assigns every variable a vocabulary word of its length, no word twice,
\* and the words of overlapping variables agree on the shared cell
IsSolution(f) ==
    /\ DOMAIN f = crossword
    /\ \A v \in crossword : f[v] \in words /\ Len(f[v]) = v.length
    /\ \A v, u \in crossword : v # u => f[v] # f[u]
    /\ \A v, u \in crossword :
          (v # u /\ Overlaps(v, u) # NoOverlap)
              => f[v][Overlaps(v, u)[1] + 1] = f[u][Overlaps(v, u)[2] + 1]

Solutions == {f \in [crossword -> words] : IsSolution(f)}

\* C1: every assignment solve() returns gives every variable a word of the
\* variable's length, uses no word twice, and agrees at every overlap.
C1_SolutionValid ==
    result = "assignment" =>
        /\ \A k, m \in 1..Len(assignment) : k # m => assignment[k].var # assignment[m].var
        /\ IsSolution(AsMap(assignment))

\* the 2 x 2 grid, four slots that all cross, is solved
C1_Witness ==
    /\ result = "assignment"
    /\ crossword = PuzzleSquare

\* C2: solve() returns the no-solution signal exactly when the puzzle has no
\* complete valid assignment over the vocabulary.
C2_SolveComplete ==
    pc = "done" => (result = "None" <=> Solutions = {})

\* scenario A: two crossing slots of length 3, three words, two of which
\* share their first letter
C2_Witness ==
    /\ pc = "done"
    /\ result = "assignment"
    /\ crossword = PuzzleCross
    /\ Cardinality(words) = 3
    /\ Solutions # {}

\* Every candidate of x has a different candidate of y that agrees with it
\* on the shared cell, for every overlapping pair (x, y)
ArcConsistent(doms) ==
    \A x, y \in crossword :
        (x # y /\ Overlaps(x, y) # NoOverlap) =>
            \A v1 \in doms[x] : \E v2 \in doms[y] :
                v1 # v2 /\ v1[Overlaps(x, y)[1] + 1] = v2[Overlaps(x, y)[2] + 1]

\* What enforce_node_consistency leaves of fresh domains
NodeConsistentDomain(v) == {w \in words : Len(w) = v.length}

\* C3: when ac3, started from all arcs, returns True, every candidate of
\* every variable has support in the domain of every overlapping variable.
C3_Ac3Sound ==
    ac3ret = "True" => ArcConsistent(domains)

\* ac3 returned True having pruned some, not all, candidates of a variable
C3_Witness ==
    /\ ac3ret = "True"
    /\ \E x \in crossword :
          /\ Neighbors(x) # {}
          /\ domains[x] # {}
          /\ domains[x] # NodeConsistentDomain(x)

\* C4: once a revise call inside ac3 has emptied a domain, ac3 has returned
\* False, at that call.
C4_EmptyDomainFails ==
    emptied => ac3ret = "False"

\* C5: when ac3 inside solve() leaves a variable with an empty domain,
\* solve() returns None, never an assignment.
C5_EmptyDomainNoSolution ==
    (pc = "done" /\ \E v \in crossword : domains[v] = {}) => result = "None"

\* a revise call of ac3 emptied a domain and solve() has returned
C5_Witness ==
    /\ pc = "done"
    /\ emptied
    /\ result = "None"

\* C6: enforce_node_consistency on fresh domains ends normally and leaves
\* each variable exactly the vocabulary words of its length.
C6_NodeConsistency ==
    (call.op = "enforce_node_consistency" /\ nodeRuns = 1) =>
        /\ call.ret = "None"
        /\ \A v \in crossword : domains[v] = NodeConsistentDomain(v)

\* one variable lost every word, another kept some
C6_Witness ==
    /\ call.op = "enforce_node_consistency"
    /\ nodeRuns = 1
    /\ \E v, u \in crossword : domains[v] = {} /\ domains[u] # {}

\* C7: a second enforce_node_consistency right after the first ends normally
\* and leaves the domains as the first left them.
C7_NodeIdempotent ==
    (call.op = "enforce_node_consistency" /\ nodeRuns = 2) =>
        (call.ret = "None" /\ domains = call.pre)

\* C8: revise(x, y) keeps of domain(x) exactly the candidates with a
\* different, agreeing candidate in domain(y) (all of them when x and y do
\* not overlap), returns whether domain(x) changed, and changes no other
\* domain.
C8_ReviseContract ==
    call.op = "revise" =>
        LET x == call.x
            y == call.y
            o == Overlaps(x, y)
        IN  /\ domains[x] =
                  IF o # NoOverlap
                  THEN {v1 \in call.pre[x] : \E v2 \in call.pre[y] :
                            v1[o[1] + 1] = v2[o[2] + 1] /\ v1 # v2}
                  ELSE call.pre[x]
            /\ call.ret = (domains[x] # call.pre[x])
            /\ \A z \in crossword \ {x} : domains[z] = call.pre[z]

\* a revise call that removed some, not all, candidates of x
C8_Witness ==
    /\ call.op = "revise"
    /\ call.ret = TRUE
    /\ domains[call.x] # {}

\* The assigned words have their variables' lengths, are pairwise distinct,
\* and the words of assigned overlapping variables agree on the shared cell
AssignedValid(a) ==
    /\ \A k \in 1..Len(a) : Len(a[k].val) = a[k].var.length
    /\ \A k, m \in 1..Len(a) : k # m => a[k].val # a[m].val
    /\ \A k, m \in 1..Len(a) :
          (k # m /\ Overlaps(a[k].var, a[m].var) # NoOverlap) =>
              a[k].val[Overlaps(a[k].var, a[m].var)[1] + 1]
                  = a[m].val[Overlaps(a[k].var, a[m].var)[2] + 1]

\* C9: consistent(assignment) returns True when the assigned words fit their
\* variables, are distinct and agree at the overlaps, and False otherwise.
C9_ConsistentContract ==
    call.op = "consistent" =>
        call.ret = (IF AssignedValid(call.a) THEN "True" ELSE "False")

\* The variables not assigned when the k-th frame chose its variable
UnassignedAt(k) ==
    crossword \ {assignment[m].var : m \in 1..(k - 1)}

\* C10: the variable a backtrack call selects is unassigned, has the fewest
\* candidates of the unassigned variables and, among those with that many,
\* the most neighbours.
C10_SelectMrvDegree ==
    \A k \in 1..Len(frames) :
        LET v == frames[k].var
        IN  /\ v \in UnassignedAt(k)
            /\ \A u \in UnassignedAt(k) :
                  /\ Cardinality(domains[v]) <= Cardinality(domains[u])
                  /\ Cardinality(domains[u]) = Cardinality(domains[v])
                        => Cardinality(Neighbors(u)) <= Cardinality(Neighbors(v))

\* the variable iterated first ties on domain size with a later one of higher
\* degree, which is the one selected
C10_Witness ==
    /\ frames # <<>>
    /\ frames[1].var # varOrder[1]
    /\ Cardinality(domains[frames[1].var]) = Cardinality(domains[varOrder[1]])
    /\ Cardinality(domains[frames[1].var]) > 0
    /\ Cardinality(Neighbors(frames[1].var)) > Cardinality(Neighbors(varOrder[1]))

\* ------------------------------------------------------------------- C11

\* The (unassigned neighbour, candidate of that neighbour) pairs whose letters
\* at the overlap differ from val's
ConflictPairs(var, val, keys) ==
    {<<n, w>> \in UNION {{n} \X domains[n] : n \in Neighbors(var) \ keys} :
        Char(val, Overlaps(var, n)[1]) # Char(w, Overlaps(var, n)[2])}

ConflictCount(var, val, keys) == Cardinality(ConflictPairs(var, val, keys))

PositionIn(seq, w) == CHOOSE k \in 1..Len(seq) : seq[k] = w

\* ret holds every member of domain(var) exactly once, by ascending conflict count
SortedByConflicts(var, keys, ret) ==
    /\ Len(ret) = Cardinality(domains[var])
    /\ {ret[k] : k \in 1..Len(ret)} = domains[var]
    /\ \A p, q \in 1..Len(ret) :
          p < q => ConflictCount(var, ret[p], keys) <= ConflictCount(var, ret[q], keys)

Tied(var, keys, w1, w2) == ConflictCount(var, w1, keys) = ConflictCount(var, w2, keys)

\* C11 as written: order_domain_values returns a permutation of domain(var) in
\* ascending order of conflict count, and candidates with equal counts keep
\* the order in which the domain was iterated.
C11_TiesKeepEncounterOrder ==
    call.op = "order_domain_values" =>
        /\ SortedByConflicts(call.var, call.keys, call.ret)
        /\ \A p, q \in 1..Len(call.ret) :
              (p < q /\ Tied(call.var, call.keys, call.ret[p], call.ret[q]))
                  => PositionIn(call.encounter, call.ret[p])
                         < PositionIn(call.encounter, call.ret[q])

\* C11, amended: on the node-consistent domains of solve(), order_domain_values
\* returns a permutation of domain(var) in ascending order of conflict count,
\* and candidates with equal counts come in ascending order of the words
\* themselves, whatever the order in which the domain was iterated.
C11_TiesSortedByWord ==
    call.op = "order_domain_values" =>
        /\ SortedByConflicts(call.var, call.keys, call.ret)
        /\ \A p, q \in 1..Len(call.ret) :
              (p < q /\ Tied(call.var, call.keys, call.ret[p], call.ret[q]))
                  => WordLess(call.ret[p], call.ret[q])

\* a call whose candidates differ in conflict count and also tie, iterated in
\* an order that is not the returned one
C11_Witness ==
    /\ call.op = "order_domain_values"
    /\ call.ret # call.encounter
    /\ \E w1, w2 \in domains[call.var] :
          w1 # w2 /\ Tied(call.var, call.keys, w1, w2)
    /\ \E w1, w2 \in domains[call.var] :
          ConflictCount(call.var, w1, call.keys) < ConflictCount(call.var, w2, call.keys)

\* ------------------------------------------------------------------- C12

\* the candidates the call of frame k has tried so far
TriedAt(k) == domains[frames[k].var] \ frames[k].todo

\* C12: the branch loop of backtrack tries the candidates in the order of
\* order_domain_values: of two candidates, the one with the strictly smaller
\* conflict count is tried first, so no call has tried a candidate while one
\* with a strictly smaller count is still waiting.
C12_TriesLeastConstrainingFirst ==
    \A k \in 1..Len(frames) :
        \A t \in TriedAt(k), u \in frames[k].todo :
            ~(ConflictCount(frames[k].var, u, Assigned(frames[k].entry))
                  < ConflictCount(frames[k].var, t, Assigned(frames[k].entry)))

\* ------------------------------------------------------------------- C13

\* C13: within a solve no step of enforce_node_consistency, revise, ac3 or
\* backtrack adds a value to a domain, and every domain is at all times a
\* subset of the vocabulary the domains started from.
C13_DomainsOnlyShrink ==
    /\ [](\A v \in crossword : domains[v] \subseteq words)
    /\ [][\A v \in crossword : domains'[v] \subseteq domains[v]]_vars

\* node consistency and then a revision have each taken values from a domain
\* that is still not empty
C13_Witness ==
    /\ pc = "done"
    /\ \E v \in crossword :
          /\ domains[v] # {}
          /\ domains[v] # NodeConsistentDomain(v)
          /\ NodeConsistentDomain(v) # words

\* ------------------------------------------------------------------- C14

Backtracking == pc \in {"backtrack", "backtrack_loop"}

\* C14: from the first call of backtrack until the search returns, no step
\* changes any domain; the steps of the search change the assignment (and the
\* position in the search) only.
C14_DomainsReadOnlyInSearch ==
    [][Backtracking => domains' = domains]_vars

\* the search is two calls deep, has put a value into the assignment, and a
\* domain still offers values that were not tried
C14_Witness ==
    /\ pc = "backtrack_loop"
    /\ Len(frames) >= 2
    /\ assignment # <<>>
    /\ frames[Len(frames)].todo # {}

\* ------------------------------------------------------------------- C15

\* the innermost call of backtrack has run out of values: it returns None next
ReturnsFailure == pc = "backtrack_loop" /\ frames[Len(frames)].todo = {}

\* C15: when a call of backtrack returns failure, the assignment holds exactly
\* the entries it held when that call started, and after a failed search the
\* assignment of the root call is empty.
C15_RollbackOnFailure ==
    /\ ReturnsFailure => assignment = frames[Len(frames)].entry
    /\ result = "None" => assignment = <<>>

\* a nested call that was entered with a non-empty assignment, has tried at
\* least two values and is about to return failure
C15_Witness ==
    /\ ReturnsFailure
    /\ Len(frames) >= 2
    /\ frames[Len(frames)].entry # <<>>
    /\ Cardinality(domains[frames[Len(frames)].var]) >= 2

\* ------------------------------------------------------------------- C16

\* some slot has a length that no word of the vocabulary has
Malformed == \E v \in crossword : NodeConsistentDomain(v) = {}

\* C16: when the length of some variable matches no word of the vocabulary,
\* solve() never raises and comes to an end, returning None.
C16_MalformedReturnsNone ==
    /\ [](Malformed => pc # "raised")
    /\ <>(Malformed => (pc = "done" /\ result = "None"))

\* solve() has returned None on a puzzle with a slot no word fits, while
\* another slot does have words of its length
C16_Witness ==
    /\ Malformed
    /\ pc = "done"
    /\ result = "None"
    /\ \E v \in crossword : NodeConsistentDomain(v) # {}

\* ------------------------------------------------------------------- C17

\* what the last revise call left on the queue behind the arcs it found there
Enqueued == SubSeq(arcs, Len(call.queue) + 1, Len(arcs))

\* C17: when processing an arc (x, y) changes domain(x), exactly the arcs
\* (z, x) for the neighbours z of x other than y are added to the queue, each
\* once and behind the arcs already waiting; when domain(x) does not change,
\* nothing is added.
C17_ReenqueueRule ==
    (call.op = "revise" /\ pc # "raised") =>
        /\ Len(arcs) >= Len(call.queue)
        /\ SubSeq(arcs, 1, Len(call.queue)) = call.queue
        /\ IF call.ret
           THEN /\ {Enqueued[k] : k \in 1..Len(Enqueued)}
                      = {<<z, call.x>> : z \in Neighbors(call.x) \ {call.y}}
                /\ Len(Enqueued) = Cardinality(Neighbors(call.x) \ {call.y})
           ELSE Enqueued = <<>>

\* a revision of x that took a value from its domain without emptying it, and
\* put the arc of another neighbour back on a queue that was not empty
C17_Witness ==
    /\ call.op = "revise"
    /\ pc = "ac3_loop"
    /\ call.ret
    /\ domains[call.x] # {}
    /\ call.queue # <<>>
    /\ Enqueued # <<>>

\* ------------------------------------------------------------------- C18

\* C18: ac3 always terminates: in whatever order the arcs come to be taken,
\* the call returns after finitely many revise calls.
C18_Ac3Terminates == <>(ac3ret # "pending")

\* ac3 has returned after revisions that took away words of the right length
\* in a puzzle with three or more slots, so arcs were put back on the queue
\* on the way
C18_Witness ==
    /\ ac3ret # "pending"
    /\ call.op = "revise"
    /\ Cardinality(crossword) >= 3
    /\ \E v \in crossword : domains[v] # NodeConsistentDomain(v)

\* ------------------------------------------------------------------- C19

\* C19: the recursion of backtrack is never deeper than the number of
\* variables; each call is entered with exactly one more variable assigned
\* than its caller was entered with; no variable is assigned by two calls of
\* one branch; and the search comes to an end.
C19_SearchDepthAndTermination ==
    /\ [](/\ Len(frames) <= Cardinality(crossword)
          /\ \A k \in 1..Len(frames) :
                /\ Cardinality(Assigned(frames[k].entry)) = k - 1
                /\ Len(frames[k].entry) = k - 1
                /\ frames[k].var \notin Assigned(frames[k].entry)
          /\ \A j, k \in 1..Len(frames) :
                j # k => frames[j].var # frames[k].var)
    /\ <>(result # "pending")

\* the search is as deep as the puzzle has slots, three or more
C19_Witness ==
    /\ pc = "backtrack_loop"
    /\ Len(frames) = Cardinality(crossword)
    /\ Cardinality(crossword) >= 3

\* ------------------------------------------------------------------- C20

\* C20: ac3 starts from all arcs only when it is given no list; a list it is
\* given is its initial queue exactly as given, so that ac3 with an empty
\* list has nothing to revise, changes no domain and returns True.
C20_ExplicitArcsUsed ==
    call.op = "ac3" =>
        arcs = IF call.arg.given THEN call.arg.list ELSE AllArcs(varOrder)

\* ------------------------------------------------------------------- C21

\* C21: preprocessing preserves solutions: for every valid complete
\* assignment over the vocabulary and every variable v, the word the
\* assignment gives v is still in domain(v) after enforce_node_consistency
\* followed by ac3.
C21_SolutionsPreserved ==
    ac3ret # "pending" =>
        \A f \in Solutions : \A v \in crossword : f[v] \in domains[v]

\* ac3 has returned on a puzzle that has a solution, after revise took a word
\* of the right length from the domain of a slot
C21_Witness ==
    /\ ac3ret = "True"
    /\ Solutions # {}
    /\ \E v \in crossword :
          /\ Neighbors(v) # {}
          /\ domains[v] # NodeConsistentDomain(v)

\* ------------------------------------------------------------------- C22

\* every domain without the candidates that have no support, differing from
\* them, in the domain of some overlapping variable
PrunedOnce(doms) ==
    [x \in crossword |->
        {v1 \in doms[x] :
            \A y \in crossword :
                (x # y /\ Overlaps(x, y) # NoOverlap) =>
                    \E v2 \in doms[y] :
                        v1 # v2 /\ v1[Overlaps(x, y)[1] + 1] = v2[Overlaps(x, y)[2] + 1]}]

\* the largest arc-consistent domains inside doms
RECURSIVE LargestArcConsistent(_)
LargestArcConsistent(doms) ==
    IF PrunedOnce(doms) = doms THEN doms ELSE LargestArcConsistent(PrunedOnce(doms))

\* C22: from the same domains and the default list of all arcs, ac3 ends with
\* the same domains and the same return value in whatever order the arcs are
\* taken from the queue: the domains are the largest arc-consistent ones
\* inside the node-consistent domains, which the order has no part in, and
\* the return value is True.
C22_Ac3OrderIndependent ==
    ac3ret # "pending" =>
        /\ ac3ret = "True"
        /\ domains = LargestArcConsistent([v \in crossword |-> NodeConsistentDomain(v)])

\* ac3 has returned on a puzzle of three or more slots after pruning a domain
\* that is still not empty; the arcs of such a puzzle come in many orders
C22_Witness ==
    /\ ac3ret # "pending"
    /\ Cardinality(crossword) >= 3
    /\ \E v \in crossword :
          /\ domains[v] # {}
          /\ domains[v] # NodeConsistentDomain(v)

====
